---- MODULE Spec2Model ----
(***************************************************************************)
(* Model of the safe-exploration experiment code:                          *)
(*   - the task graph that classification/train.py and                     *)
(*     classification/baseline.py submit to the task engine,               *)
(*   - the trial loop of classification_run,                               *)
(*   - the policies (epsilon-greedy, Boltzmann, online ranking).           *)
(* The task engine itself (backflow / rulpy.pipeline) is imported by the   *)
(* sources and is modelled from section 4.4 of the specification.          *)
(***************************************************************************)
EXTENDS Integers, Sequences, FiniteSets, TLC

VARIABLES
    \* ---- task graph ----
    configs,    \* the parsed lines of the configuration file (train.py:49-51)
    repeats,    \* args.repeats
    parallel,   \* args.parallel
    faulty,     \* the task keys whose body raises in this run
    mainPc,     \* position of main(): "start", "blocked", "done"
    nodes,      \* task key -> node record of the engine
    \* ---- one policy object and the calls made on it ----
    pol,        \* the policy
    ctx,        \* the context x of the calls
    nupd,       \* updates applied to the policy so far
    out,        \* the last call and what it returned
    \* ---- trials ----
    points,     \* the checkpoints every trial evaluates at
    heap,       \* array identity -> parameter array
    trial,      \* the classification_run tasks
    rng         \* worker thread -> the state of its pseudorandom generator

engineVars == <<configs, repeats, faulty, mainPc, nodes>>
policyVars == <<pol, ctx, nupd, out>>
trialVars == <<points, heap, trial, rng>>

vars == <<configs, repeats, parallel, faulty, mainPc, nodes, pol, ctx, nupd, out,
          points, heap, trial, rng>>

(***************************************************************************)
(* Bounds of the model.                                                    *)
(***************************************************************************)
MaxParallel == 2
MaxActions == 3     \* k, the number of actions of a classification policy
NumFeatures == 2    \* d, the number of feature columns
MaxUpdates == 1     \* updates applied to one policy object

(***************************************************************************)
(* Program constants.                                                      *)
(***************************************************************************)
SeedBase == 4200

\* args.dataset: one dataset name per process invocation (train.py:27).
Dataset == "usps"

(***************************************************************************)
(* Configurations: one parsed line of the configuration file.              *)
(***************************************************************************)
Config(strategy, l2, cold) == [strategy |-> strategy, l2 |-> l2, cold |-> cold]

CfgEps == Config("epsgreedy", 1, FALSE)
CfgBoltz == Config("boltzmann", 1, FALSE)
CfgUcb1 == Config("ucb", 1, FALSE)
CfgUcb2 == Config("ucb", 2, FALSE)

\* The runs explored: a configuration file and args.repeats.
Scenario(cfgs, reps) == [configs |-> cfgs, repeats |-> reps]

Scenarios ==
    { Scenario(<<CfgEps>>, 2), Scenario(<<CfgEps, CfgBoltz>>, 1),
      Scenario(<<CfgEps, CfgUcb1>>, 1), Scenario(<<CfgUcb1, CfgUcb2>>, 1),
      Scenario(<<CfgEps, CfgEps>>, 1) }

(***************************************************************************)
(* Task keys: (function identity, canonical argument tuple).               *)
(***************************************************************************)
Key(fn, args) == <<fn, args>>
Fn(k) == k[1]
Args(k) == k[2]

Range(s) == { s[i] : i \in DOMAIN s }

\* main(): one run_experiment per configuration (train.py:55).
MainCalls == [ i \in DOMAIN configs |-> Key("run_experiment", <<configs[i], Dataset, repeats>>) ]

\* run_experiment: one classification_run per seed (train.py:114-115).
RunExperimentCalls(k) ==
    [ i \in 1..Args(k)[3] |->
        Key("classification_run", <<Args(k)[1], Args(k)[2], SeedBase + i - 1>>) ]

\* classification_run requesting load_train(data), as train_baseline does.
ClassificationRunCalls_Unseeded(k) ==
    << Key("load_train", <<Args(k)[2]>>),
       Key("load_test", <<Args(k)[2], Args(k)[3]>>),
       Key("build_policy", <<Args(k)[1], Args(k)[2], Args(k)[3]>>) >>

\* classification_run: train, test and policy (train.py:148-150).
ClassificationRunCalls(k) ==
    << Key("load_train", <<Args(k)[2], Args(k)[3]>>),
       Key("load_test", <<Args(k)[2], Args(k)[3]>>),
       Key("build_policy", <<Args(k)[1], Args(k)[2], Args(k)[3]>>) >>

\* The baseline request carrying the strategy for every configuration.
BaselineRequest_PerStrategy(config, data, seed) ==
    IF config.strategy \in {"ucb", "thompson"}
    THEN Key("statistical_baseline", <<data, config.l2, seed, config.strategy>>)
    ELSE Key("best_baseline", <<data, seed, config.strategy>>)

\* build_policy: the baseline it requests (train.py:203-206).
BaselineRequest(config, data, seed) ==
    IF config.strategy \in {"ucb", "thompson"}
    THEN Key("statistical_baseline", <<data, config.l2, seed, config.strategy>>)
    ELSE Key("best_baseline", <<data, seed>>)

\* build_policy: train and baseline (train.py:202-207).
BuildPolicyCalls(k) ==
    << Key("load_train", <<Args(k)[2], Args(k)[3]>>),
       BaselineRequest(Args(k)[1], Args(k)[2], Args(k)[3]) >>

\* best_baseline: train_baseline with the hyperparameters conf/baselines.json
\* gives for the dataset (baseline.py:108-110).
BestBaselineCalls(k) == << Key("train_baseline", <<Args(k)[1], Args(k)[2]>>) >>

\* train_baseline: load_train(data), without the seed (baseline.py:94-95).
TrainBaselineCalls(k) == << Key("load_train", <<Args(k)[1]>>) >>

\* build_policy falling back to a cold start when its baseline failed.
Catches_BuildPolicy(k) == Fn(k) = "build_policy"

\* Whether the body of k handles the failure an await raises: no await of
\* train.py or baseline.py stands in a try block (train.py:118, 151, 207;
\* baseline.py:95, 110).
Catches(k) == FALSE

\* The tasks a task body submits and then awaits, in await order.
Calls(k) ==
    CASE Fn(k) = "run_experiment" -> RunExperimentCalls(k)
      [] Fn(k) = "classification_run" -> ClassificationRunCalls(k)
      [] Fn(k) = "build_policy" -> BuildPolicyCalls(k)
      [] Fn(k) = "best_baseline" -> BestBaselineCalls(k)
      [] Fn(k) = "train_baseline" -> TrainBaselineCalls(k)
      [] OTHER -> << >>

\* The sets of task keys whose body raises that are explored.
FaultSets ==
    { {},
      { Key("load_train", <<Dataset, SeedBase>>) },
      { Key("load_train", <<Dataset>>) },
      { Key("load_test", <<Dataset, SeedBase>>), Key("load_train", <<Dataset, SeedBase>>) },
      { Key("best_baseline", <<Dataset, SeedBase>>) },
      { Key("statistical_baseline", <<Dataset, 1, SeedBase, "ucb">>) },
      { Key("classification_run", <<CfgEps, Dataset, SeedBase>>) } }

(***************************************************************************)
(* The task engine (specification section 4.4).                            *)
(***************************************************************************)
NoValue == [ok |-> FALSE, src |-> Key("", << >>), run |-> 0]

\* A node as submit creates it.
NewNode ==
    [st |-> "pending", pc |-> 0, execs |-> 0, res |-> NoValue, seen |-> << >>]

Submitted == DOMAIN nodes

\* submit: a key already known returns the existing node (single-flight).
Submit(ns, keys) ==
    [ k \in DOMAIN ns \cup keys |-> IF k \in DOMAIN ns THEN ns[k] ELSE NewNode ]

Terminal(k) == k \in Submitted /\ nodes[k].st \in {"completed", "failed"}

Running == { k \in Submitted : nodes[k].st = "running" }

\* A pool one worker larger than asked for.
SchedulerWorkers_OneMore(p) == p + 1

\* A pool that counts the main thread among its workers.
SchedulerWorkers_OneLess(p) == p - 1

\* MultiThreadScheduler(args.parallel) (train.py:54).
SchedulerWorkers(p) == p

WorkerFree == Cardinality(Running) < SchedulerWorkers(parallel)

\* The index of the first awaited task that failed, 0 when none did.
FirstFailed(aw) ==
    LET bad == { i \in DOMAIN aw : nodes[aw[i]].st = "failed" }
    IN IF bad = {} THEN 0 ELSE CHOOSE i \in bad : \A j \in bad : i <= j

\* The awaits of a suspended task can all be answered: each awaited task up to
\* the first failed one is terminal.
Ready(k) ==
    LET aw == Calls(k)
        f == FirstFailed(aw)
    IN \A i \in DOMAIN aw : (f = 0 \/ i <= f) => Terminal(aw[i])

\* The value a task body returns.
Result(k) ==
    IF Fn(k) = "best_baseline"
    THEN nodes[k].seen[1]                               \* return await train_baseline(...)
    ELSE [ok |-> TRUE, src |-> k, run |-> nodes[k].execs]

Main ==
    /\ mainPc = "start"
    /\ nodes' = Submit(nodes, Range(MainCalls))
    /\ mainPc' = "blocked"
    /\ UNCHANGED <<configs, repeats, parallel, faulty, policyVars, trialVars>>

\* A worker takes a pending node and runs its body up to its first await: a
\* body that awaits submits its tasks and is suspended, and its worker is free
\* again; a body that awaits nothing keeps the worker until it returns.
Start(k) ==
    /\ nodes[k].st = "pending"
    /\ WorkerFree
    /\ nodes' = [Submit(nodes, Range(Calls(k))) EXCEPT
                    ![k].st = IF Calls(k) = << >> THEN "running" ELSE "waiting",
                    ![k].execs = @ + 1]
    /\ UNCHANGED <<configs, repeats, parallel, faulty, mainPc, policyVars, trialVars>>

\* The engine resumes a suspended node whose awaits can be answered; an await
\* of a failed node raises that node's failure in the awaiting body.
Resume(k) ==
    /\ nodes[k].st = "waiting"
    /\ Ready(k)
    /\ WorkerFree
    /\ LET aw == Calls(k)
           f == FirstFailed(aw)
       IN IF f # 0 /\ ~Catches(k)
          THEN nodes' = [nodes EXCEPT ![k].st = "failed", ![k].pc = 1,
                                      ![k].res = nodes[aw[f]].res,
                                      ![k].seen = [ i \in 1..f |-> nodes[aw[i]].res ]]
          ELSE nodes' = [nodes EXCEPT ![k].st = "running", ![k].pc = 1,
                                      ![k].seen = [ i \in 1..(IF f # 0 THEN f ELSE Len(aw)) |->
                                                      nodes[aw[i]].res ]]
    /\ UNCHANGED <<configs, repeats, parallel, faulty, mainPc, policyVars, trialVars>>

\* The body returns.
Finish(k) ==
    /\ nodes[k].st = "running"
    /\ nodes[k].pc = 1 \/ Calls(k) = << >>
    /\ k \notin faulty
    /\ nodes' = [nodes EXCEPT ![k].st = "completed", ![k].res = Result(k)]
    /\ UNCHANGED <<configs, repeats, parallel, faulty, mainPc, policyVars, trialVars>>

\* The body raises.
Raise(k) ==
    /\ nodes[k].st = "running"
    /\ nodes[k].pc = 1 \/ Calls(k) = << >>
    /\ k \in faulty
    /\ nodes' = [nodes EXCEPT ![k].st = "failed",
                              ![k].res = [ok |-> FALSE, src |-> k, run |-> nodes[k].execs]]
    /\ UNCHANGED <<configs, repeats, parallel, faulty, mainPc, policyVars, trialVars>>

\* scheduler.block_until_tasks_finish() returns (train.py:56).
Collect ==
    /\ mainPc = "blocked"
    /\ \A k \in Submitted : Terminal(k)
    /\ mainPc' = "done"
    /\ UNCHANGED <<configs, repeats, parallel, faulty, nodes, policyVars, trialVars>>

EngineInit ==
    /\ \E sc \in Scenarios : configs = sc.configs /\ repeats = sc.repeats
    /\ parallel \in 1..MaxParallel
    /\ faulty \in FaultSets
    /\ mainPc = "start"
    /\ nodes = << >>

EngineNext ==
    \/ Main
    \/ Collect
    \/ \E k \in Submitted : Start(k)
    \/ \E k \in Submitted : Resume(k)
    \/ \E k \in Submitted : Finish(k)
    \/ \E k \in Submitted : Raise(k)

EngineIdle ==
    /\ configs = << >> /\ repeats = 0 /\ faulty = {} /\ mainPc = "idle" /\ nodes = << >>

(***************************************************************************)
(* The same run with no body raising, under the scheduler's fairness: a    *)
(* worker that is free takes a node that is runnable.                      *)
(***************************************************************************)
LiveInit == EngineInit /\ faulty = {}

LiveNext ==
    \/ Main
    \/ Collect
    \/ \E k \in Submitted : Start(k)
    \/ \E k \in Submitted : Resume(k)
    \/ \E k \in Submitted : Finish(k)


(***************************************************************************)
(* Numbers.  The float64 hyperparameters, features and parameters are      *)
(* modelled as exact rationals <<numerator, denominator>> in lowest terms. *)
(***************************************************************************)
RECURSIVE Gcd(_, _)
Gcd(a, b) == IF b = 0 THEN a ELSE Gcd(b, a % b)

Abs(n) == IF n < 0 THEN -n ELSE n

Rat(n, d) ==
    LET g == Gcd(Abs(n), Abs(d))
        sgn == IF d < 0 THEN -1 ELSE 1
    IN <<(sgn * n) \div g, (sgn * d) \div g>>

Zero == <<0, 1>>
One == <<1, 1>>
RAdd(p, q) == Rat(p[1] * q[2] + q[1] * p[2], p[2] * q[2])
RSub(p, q) == Rat(p[1] * q[2] - q[1] * p[2], p[2] * q[2])
RMul(p, q) == Rat(p[1] * q[1], p[2] * q[2])
RDiv(p, q) == Rat(p[1] * q[2], p[2] * q[1])
RLess(p, q) == p[1] * q[2] < q[1] * p[2]
RLeq(p, q) == p[1] * q[2] <= q[1] * p[2]

RECURSIVE RSum(_, _)
\* The sum of f over the finite set S of its arguments.
RSum(f, S) ==
    IF S = {} THEN Zero
    ELSE LET i == CHOOSE j \in S : TRUE IN RAdd(f[i], RSum(f, S \ {i}))

(***************************************************************************)
(* Policies.  A classification policy holds w, a d x k array (w[col][a]);  *)
(* the ranking policy holds w, a vector of length d.  Feature columns are  *)
(* 1..d and actions 0..k-1.                                                *)
(***************************************************************************)
Actions(k) == 0 .. (k - 1)

\* init_weights(k, d, None) / np.zeros(d).
ZeroMatrix(k, d) == [ col \in 1..d |-> [ a \in Actions(k) |-> Zero ] ]
ZeroVector(d) == [ col \in 1..d |-> Zero ]

\* _BoltzmannPolicy.__init__ through BoltzmannPolicy(k, d, lr=0.01, l2=0.0, tau=1.0, w=None).
BoltzmannPolicy(k, d, lr, l2, tau, w) ==
    [kind |-> "boltzmann", k |-> k, d |-> d, lr |-> lr, l2 |-> l2, tau |-> tau, w |-> w]

BoltzmannDefault(k, d) == BoltzmannPolicy(k, d, Rat(1, 100), Zero, One, ZeroMatrix(k, d))

\* _EpsgreedyPolicy.__init__ through EpsgreedyPolicy(k, d, lr=0.01, l2=0.0, eps=0.05, w=None).
EpsgreedyPolicy(k, d, lr, l2, eps, w) ==
    [kind |-> "epsgreedy", k |-> k, d |-> d, lr |-> lr, l2 |-> l2, eps |-> eps, w |-> w]

EpsgreedyDefault(k, d) == EpsgreedyPolicy(k, d, Rat(1, 100), Zero, Rat(5, 100), ZeroMatrix(k, d))

\* _OnlinePolicy.__init__ through OnlinePolicy(d, lr, w=None).
OnlinePolicy(d, lr, w) == [kind |-> "online", d |-> d, lr |-> lr, w |-> w]

\* x.dot(w[:, a]) for a dense view x of the sparse row.
Dot(x, w, a) == RSum([ col \in DOMAIN x |-> RMul(x[col], w[col][a]) ], DOMAIN x)

\* x.dot(w): one score per action.
Scores(x, w, k) == [ a \in Actions(k) |-> Dot(x, w, a) ]

\* np.max(s).
MaxScore(s) == LET vals == Range(s) IN CHOOSE m \in vals : \A v \in vals : RLeq(v, m)

\* _EpsgreedyPolicy.probability without the division by np.sum(gp).
EpsProbability_Unnormalised(p, x, a) ==
    LET s == Scores(x, p.w, p.k)
        up == RDiv(One, Rat(p.k, 1))
        m == MaxScore(s)
        gp == [ b \in Actions(p.k) |-> IF s[b] = m THEN One ELSE Zero ]
    IN RAdd(RMul(p.eps, up), RMul(RSub(One, p.eps), gp[a]))

\* _EpsgreedyPolicy.probability.
EpsProbability(p, x, a) ==
    LET s == Scores(x, p.w, p.k)
        up == RDiv(One, Rat(p.k, 1))
        m == MaxScore(s)
        gp0 == [ b \in Actions(p.k) |-> IF s[b] = m THEN One ELSE Zero ]
        total == RSum(gp0, Actions(p.k))
        gp == [ b \in Actions(p.k) |-> RDiv(gp0[b], total) ]
    IN RAdd(RMul(p.eps, up), RMul(RSub(One, p.eps), gp[a]))

\* argmax(s): one action of maximal score, the same at every call (max is
\* deterministic); the first such action is taken.
Argmax(s, k) ==
    LET m == MaxScore(s)
        best == { a \in Actions(k) : s[a] = m }
    IN CHOOSE a \in best : \A b \in best : a <= b

\* _EpsgreedyPolicy.max.
EpsMax(p, x) == Argmax(Scores(x, p.w, p.k), p.k)

\* A draw that never explores.
EpsDrawProbability_Greedy(p, x, a) == IF a = EpsMax(p, x) THEN One ELSE Zero

\* The probability with which _EpsgreedyPolicy.draw returns a: the branch
\* np.random.random() < self.eps is taken with probability eps and returns
\* np.random.randint(self.k), each action with probability 1/k; the other
\* branch returns self.max(x).
EpsDrawProbability(p, x, a) ==
    RAdd(RMul(p.eps, RDiv(One, Rat(p.k, 1))),
         RMul(RSub(One, p.eps), IF a = EpsMax(p, x) THEN One ELSE Zero))

\* _EpsgreedyPolicy.update: one squared-error step on the column of action a.
EpsUpdate(p, x, a, r) ==
    LET s == Dot(x, p.w, a)
        loss == RSub(s, r)
    IN [p EXCEPT !.w =
          [ col \in 1..p.d |->
              IF x[col] = Zero THEN p.w[col]
              ELSE [p.w[col] EXCEPT ![a] =
                      RSub(@, RMul(p.lr, RAdd(RMul(x[col], loss), RMul(p.l2, @))))] ]]

(***************************************************************************)
(* State capture and restore (the __getstate__, __setstate__ and           *)
(* __reduce__ attached to each policy class).                              *)
(***************************************************************************)
BoltzmannGetState(p) ==
    [k |-> p.k, d |-> p.d, lr |-> p.lr, l2 |-> p.l2, tau |-> p.tau, w |-> p.w]

BoltzmannSetState(p, state) ==
    [p EXCEPT !.k = state.k, !.d = state.d, !.lr = state.lr, !.l2 = state.l2,
              !.tau = state.tau, !.w = state.w]

\* pickle: BoltzmannPolicy(k, d), then __setstate__(state).
BoltzmannReduce(p) == BoltzmannSetState(BoltzmannDefault(p.k, p.d), BoltzmannGetState(p))

EpsGetState(p) ==
    [k |-> p.k, d |-> p.d, lr |-> p.lr, l2 |-> p.l2, eps |-> p.eps, w |-> p.w]

\* __setstate that leaves l2 as the constructor set it.
EpsSetState_NoL2(p, state) ==
    [p EXCEPT !.k = state.k, !.d = state.d, !.lr = state.lr,
              !.eps = state.eps, !.w = state.w]

EpsSetState(p, state) ==
    [p EXCEPT !.k = state.k, !.d = state.d, !.lr = state.lr, !.l2 = state.l2,
              !.eps = state.eps, !.w = state.w]

\* pickle: EpsgreedyPolicy(k, d), then __setstate__(state).
EpsReduce(p) == EpsSetState(EpsgreedyDefault(p.k, p.d), EpsGetState(p))

OnlineGetState(p) == [d |-> p.d, lr |-> p.lr, w |-> p.w]

OnlineSetState(p, state) == [p EXCEPT !.d = state.d, !.lr = state.lr, !.w = state.w]

\* pickle: OnlinePolicy(d, lr, w), no state.
OnlineReduce(p) == OnlinePolicy(p.d, p.lr, p.w)

GetState(p) ==
    CASE p.kind = "boltzmann" -> BoltzmannGetState(p)
      [] p.kind = "epsgreedy" -> EpsGetState(p)
      [] p.kind = "online" -> OnlineGetState(p)

SetState(p, state) ==
    CASE p.kind = "boltzmann" -> BoltzmannSetState(p, state)
      [] p.kind = "epsgreedy" -> EpsSetState(p, state)
      [] p.kind = "online" -> OnlineSetState(p, state)

Reduce(p) ==
    CASE p.kind = "boltzmann" -> BoltzmannReduce(p)
      [] p.kind = "epsgreedy" -> EpsReduce(p)
      [] p.kind = "online" -> OnlineReduce(p)

(***************************************************************************)
(* One policy object: the calls the claims about single policies make.     *)
(***************************************************************************)
NoCall == [op |-> "none"]

PolicyIdle == pol = NoCall /\ ctx = << >> /\ nupd = 0 /\ out = NoCall

\* The hyperparameter values explored.
EpsChoices == { Zero, Rat(1, 10), One }
Half == Rat(1, 2)

\* A parameter array with the entry of action (col mod k) set in each column.
PatternMatrix(k, d) ==
    [ col \in 1..d |-> [ a \in Actions(k) |-> IF a = col % k THEN One ELSE Zero ] ]

PatternVector(d) == [ col \in 1..d |-> Rat(col, 1) ]

InitialPolicies ==
    UNION { { EpsgreedyPolicy(k, NumFeatures, One, One, eps, w) :
                eps \in EpsChoices,
                w \in { ZeroMatrix(k, NumFeatures), PatternMatrix(k, NumFeatures) } } :
            k \in 2..MaxActions }
    \cup { BoltzmannPolicy(k, NumFeatures, Half, One, Rat(2, 1), w) :
        k \in {2}, w \in { PatternMatrix(2, NumFeatures) } }
    \cup { OnlinePolicy(NumFeatures, Half, w) : w \in { PatternVector(NumFeatures) } }

\* The contexts explored: the zero row and the rows with one feature set.
Contexts(d) ==
    { [ col \in 1..d |-> IF col = c THEN One ELSE Zero ] : c \in 0..d }

\* The rewards explored.
Rewards == { Zero, One }

\* A freshly constructed policy of the kind of p.
FreshLike(p) ==
    CASE p.kind = "boltzmann" -> BoltzmannDefault(p.k, p.d)
      [] p.kind = "epsgreedy" -> EpsgreedyDefault(p.k, p.d)
      [] p.kind = "online" -> OnlinePolicy(p.d, Rat(1, 100), ZeroVector(p.d))

PolicyInit ==
    /\ pol \in InitialPolicies
    /\ ctx \in Contexts(NumFeatures)
    /\ nupd = 0
    /\ out = NoCall

\* The caller turns to another context and drops the last return value.
PContext(x) ==
    /\ x # ctx
    /\ ctx' = x
    /\ out' = NoCall
    /\ UNCHANGED <<pol, nupd, engineVars, parallel, trialVars>>

\* policy.update(dataset, index, a, r) on the row x.
PUpdate(a, r) ==
    /\ pol.kind = "epsgreedy"
    /\ nupd < MaxUpdates
    /\ pol' = EpsUpdate(pol, ctx, a, r)
    /\ nupd' = nupd + 1
    /\ out' = NoCall
    /\ UNCHANGED <<ctx, engineVars, parallel, trialVars>>

\* policy.probability(x, a) for every action a.
PProbability ==
    /\ pol.kind = "epsgreedy"
    /\ out' = [op |-> "probability", pol |-> pol, x |-> ctx,
               val |-> [ a \in Actions(pol.k) |-> EpsProbability(pol, ctx, a) ]]
    /\ UNCHANGED <<pol, ctx, nupd, engineVars, parallel, trialVars>>

\* policy.draw(x): the distribution of the action it returns.
PDraw ==
    /\ pol.kind = "epsgreedy"
    /\ out' = [op |-> "draw", pol |-> pol, x |-> ctx,
               val |-> [ a \in Actions(pol.k) |-> EpsDrawProbability(pol, ctx, a) ]]
    /\ UNCHANGED <<pol, ctx, nupd, engineVars, parallel, trialVars>>

\* pickle.loads(pickle.dumps(policy)).
PPickle ==
    /\ out' = [op |-> "pickle", pol |-> pol, val |-> Reduce(pol)]
    /\ UNCHANGED <<pol, ctx, nupd, engineVars, parallel, trialVars>>

\* fresh.__setstate__(policy.__getstate__()).
PSetState ==
    /\ out' = [op |-> "setstate", pol |-> pol, val |-> SetState(FreshLike(pol), GetState(pol))]
    /\ UNCHANGED <<pol, ctx, nupd, engineVars, parallel, trialVars>>

PolicyNext ==
    \/ \E x \in Contexts(NumFeatures) : PContext(x)
    \/ \E a \in Actions(MaxActions), r \in Rewards :
          pol.kind = "epsgreedy" /\ a \in Actions(pol.k) /\ PUpdate(a, r)
    \/ PProbability
    \/ PDraw
    \/ PPickle
    \/ PSetState

(***************************************************************************)
(* Trials.  One trial is classification_run after its await                *)
(* (train.py:152-197) together with the build_policy that made its policy  *)
(* (train.py:208-220).  Parameter arrays live in a heap and a policy holds *)
(* the identity of its array, so that two policies holding one array can   *)
(* be told from two policies holding equal arrays.  optimize, evaluate and *)
(* rng_seed are imported by the sources and are modelled from sections     *)
(* 4.2, 4.3 and 5 of the specification.                                     *)
(***************************************************************************)
\* One parsed configuration line with the fields create_policy reads.
RunConfig(cold, lr, l2, eps, label) ==
    [strategy |-> "epsgreedy", cold |-> cold, lr |-> lr, l2 |-> l2, eps |-> eps,
     label |-> label]

RunWarm == RunConfig(FALSE, Half, Half, Half, "a")
RunWarmB == RunConfig(FALSE, Half, Half, Half, "b")
RunCold == RunConfig(TRUE, Half, Half, Half, "c")

RunOf(config, seed) == [config |-> config, seed |-> seed]

\* The sets of classification_run tasks explored.
TrialChoices ==
    { <<RunOf(RunWarm, SeedBase), RunOf(RunWarmB, SeedBase)>>,
      <<RunOf(RunWarm, SeedBase), RunOf(RunWarm, SeedBase + 1)>>,
      <<RunOf(RunWarm, SeedBase), RunOf(RunCold, SeedBase)>> }

\* The checkpoint sequences explored (the argument points).
PointChoices == { <<0, 1, 2>>, <<0, 1, 1, 2>>, <<0, 0, 1>>, <<0, 2>> }

RECURSIVE MaxOf(_)
\* np.max(points).
MaxOf(s) ==
    IF Len(s) = 1 THEN s[1]
    ELSE LET m == MaxOf(Tail(s)) IN IF s[1] > m THEN s[1] ELSE m

\* The row with feature column c set.
Row(d, c) == [ col \in 1..d |-> IF col = c THEN One ELSE Zero ]

\* load_train(data, seed) and load_test(data, seed): n rows x with labels y.
Train ==
    [n |-> 2, d |-> NumFeatures, k |-> 2,
     x |-> [ r \in 0..1 |-> Row(NumFeatures, r + 1) ], y |-> [ r \in 0..1 |-> r ]]

Test ==
    [n |-> 2, d |-> NumFeatures, k |-> 2,
     x |-> [ r \in 0..1 |-> Row(NumFeatures, r + 1) ], y |-> [ r \in 0..1 |-> 1 - r ]]

\* baseline.w, the parameter array of the trained baseline.
BaselineW == PatternMatrix(Train.k, Train.d)

\* The pseudorandom generator: a full-period congruential generator.
RngModulus == 16
RngNext(g) == (5 * g + 3) % RngModulus
RngSeed(seed) == (seed - 1) % RngModulus
RngInitial == { 1, 6 }

\* np.random.random() and np.random.randint(k) read off the generator state.
Random(g) == Rat(g, RngModulus)
RandInt(g, k) == (g \div 4) % k

RECURSIVE RngStream(_, _)
\* The next m states of the generator.
RngStream(g, m) ==
    IF m = 0 THEN << >> ELSE <<RngNext(g)>> \o RngStream(RngNext(g), m - 1)

\* prng = rng_seed(seed); indices_shuffle = prng.permutation(train.n);
\* train_indices = indices_shuffle[prng.randint(0, train.n, np.max(points))].
TrainIndices(seed, n, m) ==
    LET g == RngNext(RngSeed(seed))
        indices_shuffle == [ r \in 0..(n - 1) |-> (r + g) % n ]
        s == RngStream(g, m)
    IN [ j \in 1..m |-> indices_shuffle[RandInt(s[j], n)] ]

\* The call rng_seed(seed) of classification_run seeds the generator.
SeedGenerator_Skipped(g, seed) == g

SeedGenerator(g, seed) == RngSeed(seed)

\* train_indices[:end], a slice that starts over at every checkpoint.
Batch_Repeating(indices, start, end) == SubSeq(indices, 1, end)

\* train_indices[start:end] of a wrong, inclusive slice.
Batch_Inclusive(indices, start, end) ==
    SubSeq(indices, start + 1, IF end < Len(indices) THEN end + 1 ELSE end)

\* np.copy(train_indices[start:end]).
Batch(indices, start, end) == SubSeq(indices, start + 1, end)

\* A copy that hands out the array it was given.
DeepCopy_Alias(h, id) == [heap |-> h, w |-> id]

\* policy.__deepcopy__(): the same hyperparameters on np.copy(self.w).
DeepCopy(h, id) == [heap |-> Append(h, h[id]), w |-> Len(h) + 1]

\* np.copy(baseline.w).
NpCopy(h, id) == [heap |-> Append(h, h[id]), w |-> Len(h) + 1]

\* init_weights(k, d, None).
InitWeights(h, k, d) == [heap |-> Append(h, ZeroMatrix(k, d)), w |-> Len(h) + 1]

\* The policy object with its array read from the heap.
Deref(h, p) == [p EXCEPT !.w = h[p.w]]

\* _EpsgreedyPolicy.draw: the action and the generator state it leaves.
EpsDraw(p, x, g) ==
    LET g1 == RngNext(g) IN
    IF RLess(Random(g1), p.eps)
    THEN [a |-> RandInt(RngNext(g1), p.k), rng |-> RngNext(g1)]
    ELSE [a |-> EpsMax(p, x), rng |-> g1]

\* A probability that scales the parameter array in place.
EpsProbabilitySelf_InPlace(p, x, a) ==
    [p EXCEPT !.w = [ col \in 1..p.d |-> [ b \in Actions(p.k) |-> RMul(Half, p.w[col][b]) ] ]]

\* The policy object after probability, max and draw: their bodies assign
\* no field of self and write no entry of self.w.
EpsProbabilitySelf(p, x, a) == p
EpsMaxSelf(p, x) == p
EpsDrawSelf(p, x, g) == p

\* _BoltzmannPolicy.draw, max, probability and log_probability: they compute
\* on s = x.dot(self.w), a new array, and assign no field of self.
BoltzmannDrawSelf(p, x) == p
BoltzmannMaxSelf(p, x) == p
BoltzmannProbabilitySelf(p, x, a) == p
BoltzmannLogProbabilitySelf(p, x, a) == p

\* A Boltzmann policy warm-started from the baseline.
BoltzmannWarm == BoltzmannPolicy(Train.k, Train.d, Half, Half, One, BaselineW)

\* The reward of action a on a row: 1 for the label, 0 otherwise.
Reward(data, index, a) == IF a = data.y[index] THEN One ELSE Zero

\* One decision and update of optimize on one index of the batch.
OptimizeStep(p, data, index, g) ==
    LET x == data.x[index]
        dr == EpsDraw(p, x, g)
        r == Reward(data, index, dr.a)
    IN [w |-> EpsUpdate(EpsDrawSelf(p, x, g), x, dr.a, r).w, rng |-> dr.rng,
        train_regret |-> RSub(One, r),
        test_regret |-> RSub(One, Reward(data, index, EpsMax(p, x)))]

\* evaluate(test, policy, np.arange(0, test.n)): (deploy, learned).
Evaluate(data, p) ==
    LET rows == 0 .. (data.n - 1) IN
    [deploy |-> RDiv(RSum([ r \in rows |-> EpsProbability(p, data.x[r], data.y[r]) ], rows),
                     Rat(data.n, 1)),
     learned |-> RDiv(RSum([ r \in rows |-> Reward(data, r, EpsMax(p, data.x[r])) ], rows),
                      Rat(data.n, 1))]

RECURSIVE EvaluateSelf(_, _, _)
\* The policy object after evaluate has called probability and max on the
\* rows 0 .. n-1.
EvaluateSelf(data, p, n) ==
    IF n = 0 THEN p
    ELSE LET q == EvaluateSelf(data, p, n - 1)
         IN EpsMaxSelf(EpsProbabilitySelf(q, data.x[n - 1], data.y[n - 1]), data.x[n - 1])

\* np.zeros(len(points)).
Zeros(n) == [ i \in 1..n |-> Zero ]

NoOutput == [deploy |-> << >>, learned |-> << >>, regret |-> << >>, test_regret |-> << >>]

\* A classification_run task before its build_policy has run; log is the
\* history of the positions of train_indices it has handed to an update.
NewTrial(run) ==
    [config |-> run.config, seed |-> run.seed, pc |-> "build", built |-> 0, pol |-> NoCall,
     i |-> 0, j |-> 0, train_regret |-> Zero, test_regret |-> Zero, out |-> NoOutput,
     log |-> << >>, thread |-> 0]

TrialIdle == points = << >> /\ heap = << >> /\ trial = << >> /\ rng = << >>

\* The trials whose body holds a worker.
InBody == { t \in DOMAIN trial : trial[t].pc = "loop" }

\* The worker threads that execute no trial.
FreeThreads == { th \in DOMAIN rng : \A t \in InBody : trial[t].thread # th }

\* The thread that takes the next task: the threads of the pool are
\* interchangeable, and the first idle one stands for any of them.
IdleThread == { th \in FreeThreads : \A other \in FreeThreads : th <= other }

\* One generator for all the threads of the process.
GeneratorOf_Shared(thread) == 1

\* np.random inside a numba.jitclass method: the generator read and
\* advanced is the one of the thread that makes the call.
GeneratorOf(thread) == thread

\* The batch of the checkpoint trial t is at.
BatchOf(t) ==
    Batch(TrainIndices(trial[t].seed, Train.n, MaxOf(points)),
          points[trial[t].i - 1], points[trial[t].i])

\* The positions of train_indices that the batch of trial t is made of.
PositionsOf(t) ==
    Batch([ h \in 1..MaxOf(points) |-> h - 1 ], points[trial[t].i - 1], points[trial[t].i])

TrialInit ==
    /\ points \in PointChoices
    /\ heap = <<BaselineW>>
    /\ \E runs \in TrialChoices : trial = [ t \in DOMAIN runs |-> NewTrial(runs[t]) ]
    /\ \E g \in RngInitial : rng = [ th \in 1..parallel |-> g ]

\* build_policy(config, data, points, seed) after its await: create_policy
\* on np.copy(baseline.w), or on fresh weights for a cold configuration.
BuildPolicy(t) ==
    /\ trial[t].pc = "build"
    /\ LET c == IF trial[t].config.cold THEN InitWeights(heap, Train.k, Train.d)
                ELSE NpCopy(heap, 1)
       IN /\ heap' = c.heap
          /\ trial' = [trial EXCEPT ![t].pc = "await", ![t].built = c.w]
    /\ UNCHANGED <<points, rng, parallel, engineVars, policyVars>>

\* classification_run from the end of its await to the loop, on the worker
\* thread that resumes it: the private copy, the output arrays, the seeding
\* and the evaluation at point 0.
Begin(t) ==
    /\ trial[t].pc = "await"
    /\ Cardinality(InBody) < SchedulerWorkers(parallel)
    /\ \E th \in IdleThread :
          LET c == DeepCopy(heap, trial[t].built)
              cfg == trial[t].config
              policy == EpsgreedyPolicy(Train.k, Train.d, cfg.lr, cfg.l2, cfg.eps, c.w)
              ev == Evaluate(Test, Deref(c.heap, policy))
              after == EvaluateSelf(Test, Deref(c.heap, policy), Test.n)
              n == Len(points)
          IN /\ heap' = [c.heap EXCEPT ![c.w] = after.w]
             /\ trial' = [trial EXCEPT
                   ![t].thread = th,
                   ![t].pol = [after EXCEPT !.w = c.w],
                   ![t].out = [deploy |-> [Zeros(n) EXCEPT ![1] = ev.deploy],
                               learned |-> [Zeros(n) EXCEPT ![1] = ev.learned],
                               regret |-> Zeros(n), test_regret |-> Zeros(n)],
                   ![t].i = 2, ![t].j = 0,
                   ![t].pc = IF n >= 2 THEN "loop" ELSE "done"]
             /\ rng' = [rng EXCEPT ![GeneratorOf(th)] = SeedGenerator(@, trial[t].seed)]
    /\ UNCHANGED <<points, parallel, engineVars, policyVars>>

\* optimize: the decision and update on the next index of the batch.
Step(t) ==
    /\ trial[t].pc = "loop"
    /\ trial[t].j < Len(BatchOf(t))
    /\ LET p == trial[t].pol
           gen == GeneratorOf(trial[t].thread)
           res == OptimizeStep(Deref(heap, p), Train, BatchOf(t)[trial[t].j + 1], rng[gen])
       IN /\ heap' = [heap EXCEPT ![p.w] = res.w]
          /\ rng' = [rng EXCEPT ![gen] = res.rng]
          /\ trial' = [trial EXCEPT
                ![t].j = @ + 1,
                ![t].log = Append(@, PositionsOf(t)[trial[t].j + 1]),
                ![t].train_regret = RAdd(@, res.train_regret),
                ![t].test_regret = RAdd(@, res.test_regret)]
    /\ UNCHANGED <<points, parallel, engineVars, policyVars>>

\* A running total that drops what was recorded before.
Accumulate_Overwrite(previous, cost) == cost

\* out['regret'][i] = out['regret'][i - 1] + train_regret.
Accumulate(previous, cost) == RAdd(previous, cost)

\* optimize returns: the regrets of checkpoint i are recorded, the policy
\* is evaluated, and the loop turns to checkpoint i + 1 or returns out.
Checkpoint(t) ==
    /\ trial[t].pc = "loop"
    /\ trial[t].j = Len(BatchOf(t))
    /\ LET i == trial[t].i
           o == trial[t].out
           ev == Evaluate(Test, Deref(heap, trial[t].pol))
           after == EvaluateSelf(Test, Deref(heap, trial[t].pol), Test.n)
       IN /\ heap' = [heap EXCEPT ![trial[t].pol.w] = after.w]
          /\ trial' = [trial EXCEPT
             ![t].pol = [after EXCEPT !.w = trial[t].pol.w],
             ![t].out = [regret |-> [o.regret EXCEPT ![i] = Accumulate(o.regret[i - 1], trial[t].train_regret)],
                         test_regret |-> [o.test_regret EXCEPT ![i] = Accumulate(o.test_regret[i - 1], trial[t].test_regret)],
                         deploy |-> [o.deploy EXCEPT ![i] = ev.deploy],
                         learned |-> [o.learned EXCEPT ![i] = ev.learned]],
             ![t].i = i + 1, ![t].j = 0,
             ![t].train_regret = Zero, ![t].test_regret = Zero,
             ![t].pc = IF i < Len(points) THEN "loop" ELSE "done"]
    /\ UNCHANGED <<points, rng, parallel, engineVars, policyVars>>

TrialNext ==
    \/ \E t \in DOMAIN trial : BuildPolicy(t)
    \/ \E t \in DOMAIN trial : Begin(t)
    \/ \E t \in DOMAIN trial : Step(t)
    \/ \E t \in DOMAIN trial : Checkpoint(t)

(***************************************************************************)
(* Specifications.                                                         *)
(***************************************************************************)
EngineSpecInit == EngineInit /\ PolicyIdle /\ TrialIdle
SpecEngine == EngineSpecInit /\ [][EngineNext]_vars

LiveSpecInit == LiveInit /\ PolicyIdle /\ TrialIdle
SpecLive == LiveSpecInit /\ [][LiveNext]_vars /\ WF_vars(LiveNext)

PolicySpecInit == PolicyInit /\ EngineIdle /\ TrialIdle /\ parallel = 1
SpecPolicy == PolicySpecInit /\ [][PolicyNext]_vars

TrialSpecInit == parallel \in 1..MaxParallel /\ TrialInit /\ EngineIdle /\ PolicyIdle
SpecTrial == TrialSpecInit /\ [][TrialNext]_vars

(***************************************************************************)
(* Vocabulary of the task-graph claims.                                    *)
(***************************************************************************)
Seeds == SeedBase .. (SeedBase + repeats - 1)

HasPrefix(args, pre) ==
    /\ Len(args) >= Len(pre)
    /\ \A i \in 1..Len(pre) : args[i] = pre[i]

\* The submitted nodes of function fn whose arguments begin with pre.
NodesOf(fn, pre) == { k \in Submitted : Fn(k) = fn /\ HasPrefix(Args(k), pre) }

RECURSIVE SumExecs(_)
SumExecs(S) ==
    IF S = {} THEN 0
    ELSE LET k == CHOOSE x \in S : TRUE IN nodes[k].execs + SumExecs(S \ {k})

\* The nodes of seed s that requested load_train(data, seed) as their first
\* task and have been answered.
AnsweredTrain(s) ==
    { k \in Submitted :
        /\ Fn(k) \in {"classification_run", "build_policy"}
        /\ Args(k)[3] = s
        /\ Len(nodes[k].seen) >= 1 }

\* The build_policy nodes of seed s that have been answered by their baseline.
AnsweredBaseline(s) ==
    { k \in Submitted :
        /\ Fn(k) = "build_policy"
        /\ Args(k)[3] = s
        /\ Len(nodes[k].seen) >= 2 }

WarmStartable(k) == Args(k)[1].strategy \notin {"ucb", "thompson"}

\* The body of node k raised (its failure is its own, not an awaited one's).
Raised(k) == k \in Submitted /\ nodes[k].st = "failed" /\ nodes[k].res.src = k

\* The engine has nothing left to run.
Quiescent ==
    /\ mainPc # "start"
    /\ \A k \in Submitted :
        /\ nodes[k].st \notin {"pending", "running"}
        /\ nodes[k].st = "waiting" => ~Ready(k)

\* The tasks a trial of (config, data, seed) rests on, as train.py and
\* baseline.py name them.
TrialGraph(c, d, s) ==
    { Key("classification_run", <<c, d, s>>), Key("load_train", <<d, s>>),
      Key("load_test", <<d, s>>), Key("build_policy", <<c, d, s>>) }
    \cup (IF c.strategy \in {"ucb", "thompson"}
          THEN { Key("statistical_baseline", <<d, c.l2, s, c.strategy>>) }
          ELSE { Key("best_baseline", <<d, s>>), Key("train_baseline", <<d, s>>),
                 Key("load_train", <<d>>) })

Trials == { k \in Submitted : Fn(k) = "classification_run" }

GraphOf(t) == TrialGraph(Args(t)[1], Args(t)[2], Args(t)[3])

(***************************************************************************)
(* C1. Single-flight: every key is executed at most once and every handle  *)
(* for a key yields the one result; load_train(data, seed), requested by   *)
(* build_policy and by every classification_run of the seed, runs once per *)
(* (data, seed) and all of them receive that run's value.                  *)
(***************************************************************************)
C1_SingleFlight ==
    /\ \A k \in Submitted : nodes[k].execs <= 1
    /\ \A a, b \in Submitted : \A i \in DOMAIN nodes[a].seen, j \in DOMAIN nodes[b].seen :
            Calls(a)[i] = Calls(b)[j] => nodes[a].seen[i] = nodes[b].seen[j]
    /\ \A s \in Seeds :
        /\ SumExecs(NodesOf("load_train", <<Dataset, s>>)) <= 1
        /\ \A k \in AnsweredTrain(s) :
              /\ nodes[k].seen[1].src = Key("load_train", <<Dataset, s>>)
              /\ nodes[k].seen[1].run = 1
        /\ AnsweredTrain(s) # {} =>
              SumExecs(NodesOf("load_train", <<Dataset, s>>)) = 1

\* load_train(data, seed) ran once and has answered a classification_run and
\* its build_policy, while the build_policy of another configuration of the
\* seed has not started: its request will find the node completed.
C1_Witness ==
    \E s \in Seeds :
        /\ SumExecs(NodesOf("load_train", <<Dataset, s>>)) = 1
        /\ nodes[Key("load_train", <<Dataset, s>>)].st = "completed"
        /\ Cardinality({ k \in AnsweredTrain(s) : nodes[k].seen[1].ok }) >= 2
        /\ \E k \in AnsweredTrain(s) : Fn(k) = "classification_run"
        /\ \E k \in Submitted :
              /\ Fn(k) = "build_policy" /\ Args(k)[3] = s
              /\ nodes[k].st = "pending"

(***************************************************************************)
(* C2 as stated: whenever two different configurations of one (data, seed) *)
(* have both been answered by their baseline, one baseline task was        *)
(* executed for that (data, seed), its key holds only (data, seed), and    *)
(* both received the same result.                                          *)
(***************************************************************************)
BaselineTasks(s) ==
    NodesOf("best_baseline", <<Dataset, s>>)
    \cup { k \in Submitted : Fn(k) = "statistical_baseline" /\ Args(k)[3] = s }

C2_Original ==
    \A s \in Seeds : \A a, b \in AnsweredBaseline(s) :
        Args(a)[1] # Args(b)[1] =>
            /\ SumExecs(BaselineTasks(s)) = 1
            /\ Args(Calls(a)[2]) = <<Dataset, s>>
            /\ nodes[a].seen[2] = nodes[b].seen[2]

(***************************************************************************)
(* C2 amended: for configurations whose strategy is neither ucb nor        *)
(* thompson the baseline request is best_baseline(data, seed); best_       *)
(* baseline and train_baseline are each executed at most once per (data,   *)
(* seed), exactly once when such a configuration was answered, and two     *)
(* such configurations receive the same result.                            *)
(***************************************************************************)
C2_BaselineShared ==
    \A s \in Seeds :
        /\ SumExecs(NodesOf("best_baseline", <<Dataset, s>>)) <= 1
        /\ SumExecs(NodesOf("train_baseline", <<Dataset, s>>)) <= 1
        /\ \A a \in AnsweredBaseline(s) :
              (WarmStartable(a) /\ nodes[a].seen[2].ok) =>
                  /\ SumExecs(NodesOf("best_baseline", <<Dataset, s>>)) = 1
                  /\ SumExecs(NodesOf("train_baseline", <<Dataset, s>>)) = 1
                  /\ nodes[a].seen[2].src = Key("train_baseline", <<Dataset, s>>)
        /\ \A a, b \in AnsweredBaseline(s) :
              (WarmStartable(a) /\ WarmStartable(b)) =>
                  nodes[a].seen[2] = nodes[b].seen[2]

\* Two different configurations of one seed hold the same trained baseline.
C2_Witness ==
    \E s \in Seeds : \E a, b \in AnsweredBaseline(s) :
        /\ Args(a)[1] # Args(b)[1]
        /\ WarmStartable(a) /\ WarmStartable(b)
        /\ nodes[a].seen[2].ok /\ nodes[b].seen[2].ok
        /\ nodes[a].st = "completed" /\ nodes[b].st = "completed"

(***************************************************************************)
(* Vocabulary of the trial claims.                                         *)
(***************************************************************************)
\* The array a trial's build_policy made its policy on.
StartW(t) == IF trial[t].config.cold THEN ZeroMatrix(Train.k, Train.d) ELSE BaselineW

Obtained == { t \in DOMAIN trial : trial[t].pol # NoCall }

\* The trial took a step of its own.
Moved(t) == trial'[t] # trial[t]

\* The trial applied one update.
Updated(t) == trial[t].pc = "loop" /\ trial'[t].j = trial[t].j + 1

\* Two trials that differ at most in the label of their configuration.
SameRun(a, b) ==
    /\ trial[a].seed = trial[b].seed
    /\ [trial[a].config EXCEPT !.label = ""] = [trial[b].config EXCEPT !.label = ""]

\* Checkpoint i of the points equals the one before it.
EmptyAt(i) == i \in 2..Len(points) /\ points[i] = points[i - 1]

(***************************************************************************)
(* C3. The array of the baseline and the array of every memoized           *)
(* build_policy result keep the values they were created with; the arrays  *)
(* of the trials' policies, of the build_policy results and of the         *)
(* baseline are pairwise distinct; and an update of one trial changes no   *)
(* array but that trial's own.                                             *)
(***************************************************************************)
C3_State ==
    /\ heap # << >> => heap[1] = BaselineW
    /\ \A t \in DOMAIN trial : trial[t].built # 0 => heap[trial[t].built] = StartW(t)
    /\ \A t \in Obtained :
          /\ trial[t].pol.w # 1
          /\ \A u \in DOMAIN trial : trial[t].pol.w # trial[u].built
          /\ \A u \in Obtained \ {t} : trial[t].pol.w # trial[u].pol.w

C3_Step ==
    \A t \in DOMAIN trial :
        Updated(t) =>
            \A id \in DOMAIN heap : id # trial[t].pol.w => heap'[id] = heap[id]

C3_PrivateStorage == []C3_State /\ [][C3_Step]_vars

\* Two warm-started trials hold their policies and one of them has moved its
\* parameters away from the baseline's.
C3_Witness ==
    \E a, b \in Obtained :
        /\ a # b
        /\ ~trial[a].config.cold /\ ~trial[b].config.cold
        /\ heap[trial[a].pol.w] # BaselineW
        /\ heap[trial[b].pol.w] = BaselineW

(***************************************************************************)
(* C4. A failed node stays failed and is not executed again; a trial that  *)
(* rests on a node whose body raised fails with the failure of such a      *)
(* node, and so does the run_experiment awaiting it; a trial that rests on *)
(* no such node has completed once the engine has nothing left to run.     *)
(***************************************************************************)
C4_State ==
    /\ \A k \in Submitted :
          nodes[k].st = "completed" => \A i \in DOMAIN nodes[k].seen : nodes[k].seen[i].ok
    /\ \A t \in Trials :
          LET bad == { k \in GraphOf(t) : Raised(k) }
          IN /\ (bad # {} /\ Terminal(t)) =>
                    /\ nodes[t].st = "failed"
                    /\ nodes[t].res.src \in bad
                    /\ nodes[t].res = nodes[nodes[t].res.src].res
             /\ (bad = {} /\ Quiescent) => nodes[t].st = "completed"
    /\ \A e \in NodesOf("run_experiment", << >>) :
          LET ts == { t \in Trials : Args(t)[1] = Args(e)[1] }
          IN /\ (Terminal(e) /\ \E t \in ts : nodes[t].st = "failed") =>
                    /\ nodes[e].st = "failed"
                    /\ \E t \in ts : nodes[t].st = "failed" /\ nodes[e].res = nodes[t].res
             /\ (Quiescent /\ \A t \in ts : nodes[t].st = "completed") =>
                    nodes[e].st = "completed"

C4_Step ==
    \A k \in Submitted :
        nodes[k].st \in {"completed", "failed"} => nodes'[k] = nodes[k]

C4_FailurePropagates == []C4_State /\ [][C4_Step]_vars

\* One trial has failed with the failure of the baseline it rests on while a
\* trial that does not rest on it has completed.
C4_Witness ==
    \E t, u \in Trials :
        /\ nodes[t].st = "failed"
        /\ Fn(nodes[t].res.src) \in {"best_baseline", "statistical_baseline", "load_train"}
        /\ nodes[u].st = "completed"
        /\ Quiescent

(***************************************************************************)
(* C5. The number of nodes being executed never exceeds args.parallel;     *)
(* with args.parallel = 1 no two nodes are executed at the same time.      *)
(***************************************************************************)
C5_WorkerBound ==
    /\ Cardinality(Running) <= parallel
    /\ parallel = 1 => \A a, b \in Running : a = b

\* Every worker is busy while another node waits for one.
C5_Witness ==
    /\ parallel >= 2
    /\ Cardinality(Running) = parallel
    /\ \E k \in Submitted : nodes[k].st = "pending"

(***************************************************************************)
(* C6. With no body raising, every submitted task eventually completes and *)
(* main() gets past block_until_tasks_finish, for every pool size >= 1.    *)
(***************************************************************************)
AllCompleted ==
    /\ mainPc = "done"
    /\ \A k \in Submitted : nodes[k].st = "completed"

C6_NoDeadlock == <>[]AllCompleted

\* With one worker, run_experiment and its trials have all completed.
C6_Witness ==
    /\ parallel = 1
    /\ AllCompleted
    /\ \E e \in NodesOf("run_experiment", << >>) :
          \A i \in DOMAIN Calls(e) : nodes[Calls(e)[i]].st = "completed"

(***************************************************************************)
(* C7. Two trials of the same seed whose configurations differ at most in  *)
(* the label, and which therefore are seeded identically and start from    *)
(* equal policies on equal index batches, return equal regret trajectories *)
(* and end with equal parameter arrays.                                    *)
(***************************************************************************)
C7_Determinism ==
    \A a, b \in DOMAIN trial :
        (SameRun(a, b) /\ trial[a].pc = "done" /\ trial[b].pc = "done") =>
            /\ trial[a].out = trial[b].out
            /\ heap[trial[a].pol.w] = heap[trial[b].pol.w]

\* Both runs are done, they paid regret and moved their parameters.
C7_Witness ==
    /\ parallel = 1
    /\ \E a, b \in DOMAIN trial :
          /\ a # b /\ SameRun(a, b)
          /\ trial[a].pc = "done" /\ trial[b].pc = "done"
          /\ trial[a].out.regret[Len(points)] # Zero
          /\ heap[trial[a].pol.w] # StartW(a)

(***************************************************************************)
(* C8. When checkpoint i equals checkpoint i-1, the step of the trial at   *)
(* checkpoint i records regret[i] = regret[i-1] and test_regret[i] =       *)
(* test_regret[i-1] and leaves every entry of the policy's parameter array *)
(* as it was; the recorded values stay equal afterwards.                   *)
(***************************************************************************)
C8_State ==
    \A t \in DOMAIN trial :
        \A i \in 2..Len(points) :
            (EmptyAt(i) /\ trial[t].pc \in {"loop", "done"} /\ i < trial[t].i) =>
                /\ trial[t].out.regret[i] = trial[t].out.regret[i - 1]
                /\ trial[t].out.test_regret[i] = trial[t].out.test_regret[i - 1]

C8_Step ==
    \A t \in DOMAIN trial :
        (trial[t].pc = "loop" /\ EmptyAt(trial[t].i) /\ Moved(t)) =>
            /\ trial'[t].i = trial[t].i + 1
            /\ trial'[t].out.regret[trial[t].i] = trial[t].out.regret[trial[t].i - 1]
            /\ trial'[t].out.test_regret[trial[t].i] = trial[t].out.test_regret[trial[t].i - 1]
            /\ heap'[trial[t].pol.w] = heap[trial[t].pol.w]

C8_EmptyBatchNoOp == []C8_State /\ [][C8_Step]_vars

\* A trial has recorded a checkpoint equal to the one before it, after it
\* had paid regret and moved its parameters.
C8_Witness ==
    \E t \in DOMAIN trial :
        \E i \in 2..Len(points) :
            /\ EmptyAt(i) /\ trial[t].pc \in {"loop", "done"} /\ i < trial[t].i
            /\ trial[t].out.regret[i] # Zero
            /\ heap[trial[t].pol.w] # StartW(t)

(***************************************************************************)
(* C9. Capturing the state of a policy and restoring it, through pickle or *)
(* into a fresh policy of the same kind, yields a policy equal to the      *)
(* original in every hyperparameter and every parameter entry.             *)
(***************************************************************************)
C9_RoundTrip ==
    out.op \in {"pickle", "setstate"} =>
        /\ out.val = out.pol
        /\ DOMAIN out.val = DOMAIN out.pol
        /\ \A f \in DOMAIN out.pol : out.val[f] = out.pol[f]

\* An updated epsilon-greedy policy whose hyperparameters all differ from the
\* constructor's defaults has been pickled and restored.
C9_Witness ==
    /\ out.op = "pickle"
    /\ out.pol.kind = "epsgreedy"
    /\ out.pol.w \notin { ZeroMatrix(out.pol.k, out.pol.d), PatternMatrix(out.pol.k, out.pol.d) }
    /\ out.pol.l2 # EpsgreedyDefault(out.pol.k, out.pol.d).l2
    /\ out.pol.lr # EpsgreedyDefault(out.pol.k, out.pol.d).lr
    /\ out.pol.eps # EpsgreedyDefault(out.pol.k, out.pol.d).eps

(***************************************************************************)
(* C10. For 0 <= eps <= 1, probability(x, a) >= eps/k for every action a;  *)
(* it is eps/k + (1 - eps)/|T| for a in the set T of actions of maximal    *)
(* score and eps/k otherwise; the values over the k actions sum to 1.      *)
(***************************************************************************)
\* The actions whose score x . w[:, a] is maximal.
Greedy(p, x) ==
    { a \in Actions(p.k) : \A b \in Actions(p.k) : RLeq(Dot(x, p.w, b), Dot(x, p.w, a)) }

C10_EpsProbability ==
    out.op = "probability" =>
        LET p == out.pol
            floor == RDiv(p.eps, Rat(p.k, 1))
            T == Greedy(p, out.x)
        IN /\ RLeq(Zero, p.eps) /\ RLeq(p.eps, One)
           /\ \A a \in Actions(p.k) :
                /\ RLeq(floor, out.val[a])
                /\ a \in T =>
                     out.val[a] = RAdd(floor, RDiv(RSub(One, p.eps), Rat(Cardinality(T), 1)))
                /\ a \notin T => out.val[a] = floor
           /\ RSum(out.val, Actions(p.k)) = One

\* probability was called where two of three actions tie for the maximal
\* score, with 0 < eps < 1.
C10_Witness ==
    /\ out.op = "probability"
    /\ out.pol.k = 3
    /\ Cardinality(Greedy(out.pol, out.x)) = 2
    /\ RLess(Zero, out.pol.eps) /\ RLess(out.pol.eps, One)

(***************************************************************************)
(* C11. In a trial the recorded regret and test regret are 0 at checkpoint *)
(* 0; the step that records checkpoint i sets each to its value at         *)
(* checkpoint i-1 plus the cost optimize returned for the batch between    *)
(* the two checkpoints and leaves the earlier entries alone; the recorded  *)
(* sequences are non-decreasing.                                           *)
(***************************************************************************)
Recorded(t) ==
    IF trial[t].pc \in {"loop", "done"} THEN 1 .. (trial[t].i - 1) ELSE {}

C11_State ==
    \A t \in DOMAIN trial :
        /\ 1 \in Recorded(t) =>
              trial[t].out.regret[1] = Zero /\ trial[t].out.test_regret[1] = Zero
        /\ \A i \in Recorded(t) \ {1} :
              /\ RLeq(trial[t].out.regret[i - 1], trial[t].out.regret[i])
              /\ RLeq(trial[t].out.test_regret[i - 1], trial[t].out.test_regret[i])

C11_Step ==
    \A t \in DOMAIN trial :
        (trial[t].pc = "loop" /\ trial'[t].i = trial[t].i + 1) =>
            LET i == trial[t].i
                o == trial[t].out
                n == trial'[t].out
            IN /\ n.regret[i] = RAdd(o.regret[i - 1], trial[t].train_regret)
               /\ n.test_regret[i] = RAdd(o.test_regret[i - 1], trial[t].test_regret)
               /\ RLeq(Zero, trial[t].train_regret) /\ RLeq(Zero, trial[t].test_regret)
               /\ \A h \in 1 .. (i - 1) :
                     n.regret[h] = o.regret[h] /\ n.test_regret[h] = o.test_regret[h]

C11_RegretAccumulates == []C11_State /\ [][C11_Step]_vars

\* A trial has recorded two checkpoints after point 0, each with a cost.
C11_Witness ==
    \E t \in DOMAIN trial :
        /\ 3 \in Recorded(t)
        /\ RLess(Zero, trial[t].out.regret[2])
        /\ RLess(trial[t].out.regret[2], trial[t].out.regret[3])

(***************************************************************************)
(* C12. A trial moves from checkpoint i to i+1 only, and only when the     *)
(* whole batch of checkpoint i has been optimized, recording the           *)
(* evaluation of checkpoint i as it does; batch i is made of the positions *)
(* points[i-1] .. points[i]-1 of train_indices; so the positions handed to *)
(* the updates are points[0], points[0]+1, ... in increasing order, each   *)
(* once, and all of [points[0], points[last]) when the trial is done.      *)
(***************************************************************************)
NonDecreasing(s) == \A h \in 2..Len(s) : s[h - 1] <= s[h]

C12_State ==
    NonDecreasing(points) =>
        \A t \in DOMAIN trial :
            /\ \A h \in DOMAIN trial[t].log : trial[t].log[h] = points[1] + h - 1
            /\ trial[t].pc = "loop" =>
                  /\ PositionsOf(t) =
                        [ h \in 1 .. (points[trial[t].i] - points[trial[t].i - 1]) |->
                            points[trial[t].i - 1] + h - 1 ]
                  /\ BatchOf(t) =
                        [ h \in DOMAIN PositionsOf(t) |->
                            TrainIndices(trial[t].seed, Train.n, MaxOf(points))[PositionsOf(t)[h] + 1] ]
                  /\ Len(trial[t].log) = points[trial[t].i - 1] - points[1] + trial[t].j
            /\ trial[t].pc = "done" =>
                  Len(trial[t].log) = points[Len(points)] - points[1]

C12_Step ==
    \A t \in DOMAIN trial :
        /\ (trial[t].pc = "loop" /\ trial'[t].i # trial[t].i) =>
              /\ trial'[t].i = trial[t].i + 1
              /\ trial[t].j = points[trial[t].i] - points[trial[t].i - 1]
              /\ trial'[t].log = trial[t].log
              /\ trial'[t].out.deploy[trial[t].i] =
                    Evaluate(Test, Deref(heap, trial[t].pol)).deploy
        /\ trial'[t].log # trial[t].log =>
              /\ trial[t].pc = "loop" /\ trial'[t].i = trial[t].i
              /\ Len(trial'[t].log) = Len(trial[t].log) + 1

C12_BatchOrder == []C12_State /\ [][C12_Step]_vars

\* A trial is done after three checkpoints past point 0, one of them with
\* an empty batch, and has handed both positions to its updates.
C12_Witness ==
    \E t \in DOMAIN trial :
        /\ trial[t].pc = "done"
        /\ Len(points) = 4
        /\ trial[t].log = <<0, 1>>

(***************************************************************************)
(* C13. Evaluation only reads the policy: probability, max and draw (and   *)
(* log_probability of the Boltzmann policy) return                         *)
(* the policy object as they found it, and the step of a trial that        *)
(* evaluates (at point 0 and at the end of each checkpoint) leaves the     *)
(* hyperparameters and every entry of the parameter array as they were, so *)
(* the next batch starts from the parameters the previous batch left.      *)
(***************************************************************************)
C13_State ==
    \A t \in Obtained :
        LET p == Deref(heap, trial[t].pol) IN
        /\ EvaluateSelf(Test, p, Test.n) = p
        /\ \A r \in 0 .. (Train.n - 1) :
              /\ EpsMaxSelf(p, Train.x[r]) = p
              /\ \A a \in Actions(p.k) : EpsProbabilitySelf(p, Train.x[r], a) = p
              /\ \A g \in 0 .. (RngModulus - 1) : EpsDrawSelf(p, Train.x[r], g) = p
              /\ BoltzmannDrawSelf(BoltzmannWarm, Train.x[r]) = BoltzmannWarm
              /\ BoltzmannMaxSelf(BoltzmannWarm, Train.x[r]) = BoltzmannWarm
              /\ \A a \in Actions(Train.k) :
                    /\ BoltzmannProbabilitySelf(BoltzmannWarm, Train.x[r], a) = BoltzmannWarm
                    /\ BoltzmannLogProbabilitySelf(BoltzmannWarm, Train.x[r], a) = BoltzmannWarm

C13_Step ==
    \A t \in DOMAIN trial :
        /\ (trial[t].pc = "loop" /\ trial'[t].i = trial[t].i + 1) =>
              /\ trial'[t].pol = trial[t].pol
              /\ heap'[trial[t].pol.w] = heap[trial[t].pol.w]
        /\ (trial[t].pc = "await" /\ trial'[t].pc # "await") =>
              LET cfg == trial[t].config IN
              /\ Deref(heap', trial'[t].pol) =
                    EpsgreedyPolicy(Train.k, Train.d, cfg.lr, cfg.l2, cfg.eps, heap[trial[t].built])

C13_EvaluationReadOnly == []C13_State /\ [][C13_Step]_vars

\* A trial has evaluated a policy that an update had changed: the deployed
\* reward recorded after the first batch differs from the one at point 0.
C13_Witness ==
    \E t \in DOMAIN trial :
        /\ 2 \in Recorded(t)
        /\ heap[trial[t].pol.w] # StartW(t)
        /\ trial[t].out.deploy[2] # trial[t].out.deploy[1]

RECURSIVE OptimizeAlone(_, _, _, _)
\* optimize on a whole batch, from generator state g.
OptimizeAlone(p, data, batch, g) ==
    IF batch = << >>
    THEN [w |-> p.w, rng |-> g, train_regret |-> Zero, test_regret |-> Zero]
    ELSE LET res == OptimizeStep(p, data, Head(batch), g)
             rest == OptimizeAlone([p EXCEPT !.w = res.w], data, Tail(batch), res.rng)
         IN [w |-> rest.w, rng |-> rest.rng,
             train_regret |-> RAdd(res.train_regret, rest.train_regret),
             test_regret |-> RAdd(res.test_regret, rest.test_regret)]

\* The policy of trial t on the parameter array w.
PolicyOn(t, w) ==
    LET cfg == trial[t].config
    IN EpsgreedyPolicy(Train.k, Train.d, cfg.lr, cfg.l2, cfg.eps, w)

RECURSIVE AloneRun(_, _)
\* What trial t, run alone, holds after each of the checkpoints 1..i.
AloneRun(t, i) ==
    IF i = 1
    THEN LET ev == Evaluate(Test, PolicyOn(t, StartW(t)))
         IN << [w |-> StartW(t), rng |-> RngSeed(trial[t].seed),
                regret |-> Zero, test_regret |-> Zero,
                deploy |-> ev.deploy, learned |-> ev.learned] >>
    ELSE LET before == AloneRun(t, i - 1)
             prev == before[i - 1]
             batch == SubSeq(TrainIndices(trial[t].seed, Train.n, MaxOf(points)),
                             points[i - 1] + 1, points[i])
             res == OptimizeAlone(PolicyOn(t, prev.w), Train, batch, prev.rng)
             ev == Evaluate(Test, PolicyOn(t, res.w))
         IN Append(before,
                   [w |-> res.w, rng |-> res.rng,
                    regret |-> RAdd(prev.regret, res.train_regret),
                    test_regret |-> RAdd(prev.test_regret, res.test_regret),
                    deploy |-> ev.deploy, learned |-> ev.learned])

(***************************************************************************)
(* C15. Whatever the other trials of the pool do, and however their steps  *)
(* are interleaved with its own, every checkpoint a trial has recorded     *)
(* holds the values the trial run alone records there, and a finished      *)
(* trial ends with the parameters the trial run alone ends with: its       *)
(* indices and its draws depend on its own seed only.                      *)
(***************************************************************************)
C15_SeedOnly ==
    \A t \in DOMAIN trial :
        Recorded(t) # {} =>
            LET alone == AloneRun(t, trial[t].i - 1)
                o == trial[t].out
            IN /\ \A i \in Recorded(t) :
                     /\ o.regret[i] = alone[i].regret
                     /\ o.test_regret[i] = alone[i].test_regret
                     /\ o.deploy[i] = alone[i].deploy
                     /\ o.learned[i] = alone[i].learned
               /\ trial[t].pc = "done" =>
                     heap[trial[t].pol.w] = alone[Len(points)].w

\* Two trials are in their loops at the same time on two worker threads,
\* both have drawn, and one has recorded a checkpoint with regret.
C15_Witness ==
    \E a, b \in InBody :
        /\ a # b
        /\ trial[a].thread # trial[b].thread
        /\ trial[a].log # << >> /\ trial[b].log # << >>
        /\ 2 \in Recorded(a)
        /\ RLess(Zero, trial[a].out.regret[2])

====
